---- MODULE Spec2Model ----
(***************************************************************************)
(* Model of kernel/src/arch/riscv32/paging.rs (rCore): the page-table      *)
(* layer of the riscv32 build (two-level, linear-offset tables) and the    *)
(* recursive-slot edit of the riscv64 build.                               *)
(*                                                                         *)
(* Memory is a map from table pointers (32-bit words) to page tables.  A   *)
(* 32-bit word is the record [hi, lo]: bit 31 and the low 31 bits.         *)
(* A table is modelled on a window of its 1024 slots (Slots).              *)
(***************************************************************************)
EXTENDS Integers, FiniteSets, Sequences, TLC

(* ------------------------------ bounds -------------------------------- *)

\* Frames the allocator owns at boot.
PoolSize == 3

\* Highest modelled slot of the low (user) window 0..MaxLowSlot.
MaxLowSlot == 1

\* Modelled kernel slots are KERNEL_BEGIN..KERNEL_BEGIN+MaxKernelSlot.
MaxKernelSlot == 1

\* Operations in one run.
MaxSteps == 7

(* ------------------------- program constants -------------------------- *)

PAGE_SIZE == 4096
ENTRY_COUNT == 1024
KERNEL_BEGIN == 256
LINEAR_OFFSET == 1073741824

(* ------------------------------ inputs -------------------------------- *)

\* The frame reserved at boot for the boot root table (never in the allocator).
BootFrames == {0}
PoolFrames == 1..PoolSize
Frames == BootFrames \cup PoolFrames
NoFrame == -1

\* 0x1000 and 0x401234: two pages with different p2 indices.
VAddrs == {4096, 4198964}
\* 0x2000 and 0x3abc: frames 2 and 3.
PAddrs == {8192, 15036}

Slots == (0..MaxLowSlot) \cup ((KERNEL_BEGIN - 1)..(KERNEL_BEGIN + MaxKernelSlot))

(* --------------------------- words, pointers -------------------------- *)

Word(hi, lo) == [hi |-> hi, lo |-> lo]

\* Frame::as_kernel_mut(LINEAR_OFFSET): the pointer to the table in frame f.
as_kernel_mut(f) == Word(0, f * PAGE_SIZE + LINEAR_OFFSET)

\* Frame::of_addr / Page::of_addr and the Sv32 indices of a page.
Frame_of_addr(a) == a \div PAGE_SIZE
Page_of_addr(v) == v \div PAGE_SIZE
start_address(n) == n * PAGE_SIZE
p2_index(page) == page \div ENTRY_COUNT
p1_index(page) == page % ENTRY_COUNT

(* ------------------------------ entries ------------------------------- *)

EF == {"VALID", "READABLE", "WRITABLE", "EXECUTABLE", "USER", "GLOBAL",
       "ACCESSED", "DIRTY", "RESERVED1", "RESERVED2"}

\* PageTableEntry::set(frame, flags): the frame number and the flag bits.
PTE(frame, flags) == [ppn |-> frame, flags |-> flags]
Unused == PTE(0, {})
is_unused(e) == e = Unused

\* impl Entry for PageEntry
present(e) == {"VALID", "READABLE"} \subseteq e.flags
target(e) == start_address(e.ppn)
writable(e) == "WRITABLE" \in e.flags

ZeroTable == [s \in Slots |-> Unused]

\* bitflags: set(mask, value) and remove(mask) on the flags of an entry.
flags_set(e, mask, value) ==
    [e EXCEPT !.flags = IF value THEN @ \cup mask ELSE @ \ mask]
flags_remove(e, mask) == [e EXCEPT !.flags = @ \ mask]

\* impl Entry for PageEntry: the other queries.
accessed(e) == "ACCESSED" \in e.flags
dirty(e) == "DIRTY" \in e.flags
user(e) == "USER" \in e.flags
execute(e) == "EXECUTABLE" \in e.flags
writable_shared(e) == "RESERVED1" \in e.flags
readonly_shared(e) == "RESERVED2" \in e.flags
swapped(e) == "RESERVED1" \in e.flags

\* impl Entry for PageEntry: the mutators.
clear_accessed(e) == flags_remove(e, {"ACCESSED"})
clear_dirty(e) == flags_remove(e, {"DIRTY"})

\* set_writable that rebuilds the entry from its flags alone.
set_writable_drops_frame(e, value) ==
    PTE(0, flags_set(e, {"WRITABLE"}, value).flags)

set_writable(e, value) == flags_set(e, {"WRITABLE"}, value)
set_present(e, value) == flags_set(e, {"VALID", "READABLE"}, value)

\* set_target that installs the frame with the flags of map.
set_target_fresh_flags(e, tgt) ==
    PTE(Frame_of_addr(tgt), {"VALID", "READABLE", "WRITABLE"})

set_target(e, tgt) ==
    LET flags == e.flags
        frame == Frame_of_addr(tgt)
    IN PTE(frame, flags)

\* set_shared that leaves the read-only marker alone.
set_shared_one_marker(e, wr) == flags_set(e, {"RESERVED1"}, wr)

set_shared(e, wr) ==
    flags_set(flags_set(e, {"RESERVED1"}, wr), {"RESERVED2"}, ~wr)
clear_shared(e) == flags_remove(e, {"RESERVED1", "RESERVED2"})
set_swapped(e, value) == flags_set(e, {"RESERVED1"}, value)
set_user(e, value) == flags_set(e, {"USER"}, value)
set_execute(e, value) == flags_set(e, {"EXECUTABLE"}, value)

(* ------------------------------- state -------------------------------- *)

VARIABLES
    mem,                  \* table pointer -> table (physical memory holding tables)
    free,                 \* frames the allocator holds
    satp,                 \* the activation register
    root_page_table_ptr,  \* the word at _root_page_table_ptr
    page_table_with_mode, \* static mut __page_table_with_mode
    tables,               \* root frames of the live InactivePageTable0 values
    editv,                \* the view handed to the closure of a running edit
    tlb,                  \* cached translations of this core
    halted,               \* "" while running, else the panic message
    steps,                \* operations run so far
    inter,                \* history: frames map took for table nodes, per root
    emap,                 \* history: pages mapped through edit, per root
    last,                 \* history: the operation that ran last
    t64,                  \* riscv64: per root frame, the recursive slot and the mapped pages
    satp64,               \* riscv64: root frame named by satp
    edit64,               \* riscv64: the running edit
    entry,                \* the PageTableEntry a PageEntry refers to
    ehist                 \* history of the calls made on that PageEntry

vars == <<mem, free, satp, root_page_table_ptr, page_table_with_mode, tables,
          editv, tlb, halted, steps, inter, emap, last, t64, satp64, edit64,
          entry, ehist>>

vars32 == <<mem, free, satp, root_page_table_ptr, page_table_with_mode, tables,
            editv, tlb, halted, steps, inter, emap, last>>

vars64 == <<t64, satp64, edit64>>

varsE == <<entry, ehist>>

(* --------------------- riscv::paging (two-level) ---------------------- *)

\* PageTableEntry::frame of a table node, reached through the linear offset.
p1_of(e) == as_kernel_mut(e.ppn)

\* create_p1_if_not_exist that installs the root entry before asking for the frame.
create_p1_entry_first(m, root, p2, a) ==
    IF is_unused(m[root][p2])
    THEN IF a = NoFrame
         THEN [ok |-> FALSE, mem |-> [m EXCEPT ![root][p2] = PTE(0, {"VALID"})],
               p1 |-> root, took |-> FALSE]
         ELSE LET m1 == [m EXCEPT ![root][p2] = PTE(a, {"VALID"})]
                  m2 == [m1 EXCEPT ![as_kernel_mut(a)] = ZeroTable]
              IN [ok |-> TRUE, mem |-> m2, p1 |-> as_kernel_mut(a), took |-> TRUE]
    ELSE [ok |-> TRUE, mem |-> m, p1 |-> p1_of(m[root][p2]), took |-> FALSE]

\* TwoLevelPageTable::create_p1_if_not_exist; a is the allocator's answer.
create_p1_if_not_exist(m, root, p2, a) ==
    IF is_unused(m[root][p2])
    THEN IF a = NoFrame
         THEN [ok |-> FALSE, mem |-> m, p1 |-> root, took |-> FALSE]
         ELSE LET m1 == [m EXCEPT ![root][p2] = PTE(a, {"VALID"})]
                  m2 == [m1 EXCEPT ![as_kernel_mut(a)] = ZeroTable]
              IN [ok |-> TRUE, mem |-> m2, p1 |-> as_kernel_mut(a), took |-> TRUE]
    ELSE [ok |-> TRUE, mem |-> m, p1 |-> p1_of(m[root][p2]), took |-> FALSE]

\* Mapper::map_to that writes the leaf slot whatever it holds.
Mapper_map_to_overwrite(m, root, page, frame, flags, a) ==
    LET c == create_p1_if_not_exist(m, root, p2_index(page), a)
    IN IF ~c.ok
       THEN [err |-> "FrameAllocationFailed", mem |-> c.mem, took |-> FALSE]
       ELSE [err |-> "",
             mem |-> [c.mem EXCEPT ![c.p1][p1_index(page)] = PTE(frame, flags)],
             took |-> c.took]

\* Mapper::map_to: err is "" on success.
Mapper_map_to(m, root, page, frame, flags, a) ==
    LET c == create_p1_if_not_exist(m, root, p2_index(page), a)
    IN IF ~c.ok
       THEN [err |-> "FrameAllocationFailed", mem |-> c.mem, took |-> FALSE]
       ELSE IF ~is_unused(c.mem[c.p1][p1_index(page)])
            THEN [err |-> "PageAlreadyMapped", mem |-> c.mem, took |-> c.took]
            ELSE [err |-> "",
                  mem |-> [c.mem EXCEPT ![c.p1][p1_index(page)] = PTE(frame, flags)],
                  took |-> c.took]

\* Mapper::unmap without the check of the leaf entry.
Mapper_unmap_any_leaf(m, root, page) ==
    IF is_unused(m[root][p2_index(page)])
    THEN [err |-> "PageNotMapped", mem |-> m]
    ELSE LET p1 == p1_of(m[root][p2_index(page)])
         IN [err |-> "", mem |-> [m EXCEPT ![p1][p1_index(page)] = Unused]]

\* Mapper::unmap
Mapper_unmap(m, root, page) ==
    IF is_unused(m[root][p2_index(page)])
    THEN [err |-> "PageNotMapped", mem |-> m]
    ELSE LET p1 == p1_of(m[root][p2_index(page)])
         IN IF "VALID" \notin m[p1][p1_index(page)].flags
            THEN [err |-> "PageNotMapped", mem |-> m]
            ELSE [err |-> "", mem |-> [m EXCEPT ![p1][p1_index(page)] = Unused]]

\* Mapper::ref_entry: a reference to the leaf slot, whatever it holds.
NoRef == [ok |-> FALSE, ptr |-> Word(0, 0), slot |-> 0]
Mapper_ref_entry(m, root, page) ==
    IF is_unused(m[root][p2_index(page)])
    THEN NoRef
    ELSE [ok |-> TRUE, ptr |-> p1_of(m[root][p2_index(page)]), slot |-> p1_index(page)]

\* MapperFlush::flush / PageEntry::update: sfence_vma(0, page address).
sfence_vma(t, page) == {x \in t : x.page # page}
sfence_vma_all(t) == {}

\* A write whose invalidation is still owed: to the leaf entry of a page, or
\* to the root-pointer word.
pte_write(page) == [what |-> "pte", page |-> page]
root_ptr_write == [what |-> "root_page_table_ptr", page |-> 0]

(* ------------------------- frame allocator ---------------------------- *)

\* crate::memory::alloc_frame: any frame the allocator holds, or none.
alloc_frame(fr) == IF fr = {} THEN {NoFrame} ELSE fr

\* crate::memory::dealloc_frame(addr): the frame goes back to the allocator.
dealloc_frame(fr, addr) == fr \cup {Frame_of_addr(addr)}

(* --------------------------- ActivePageTable -------------------------- *)

\* The cached PageEntry (self.1): mem::uninitialized() until a lookup succeeds.
Uninit == [init |-> FALSE, ptr |-> Word(0, 0), slot |-> 0, page |-> 0]
PageEntry(r, page) == [init |-> TRUE, ptr |-> r.ptr, slot |-> r.slot, page |-> page]

\* ActivePageTable::new: the root pointer read at construction.
ActivePageTable_new == root_page_table_ptr

\* ActivePageTable::get_raw_table / get_table
get_raw_table(self0) ==
    IF page_table_with_mode THEN root_page_table_ptr ELSE self0

get_table(self0) == get_raw_table(self0)

\* get_entry that reports none for a leaf slot that is not present.
get_entry_present_only(m, self0, cache, vaddr) ==
    LET page == Page_of_addr(vaddr)
        r == Mapper_ref_entry(m, get_table(self0), page)
    IN IF r.ok /\ present(m[r.ptr][r.slot])
       THEN [some |-> TRUE, cache |-> PageEntry(r, page)]
       ELSE [some |-> FALSE, cache |-> cache]

\* get_entry that does not store the reference it found.
get_entry_cache_not_set(m, self0, cache, vaddr) ==
    LET page == Page_of_addr(vaddr)
        r == Mapper_ref_entry(m, get_table(self0), page)
    IN [some |-> r.ok, cache |-> cache]

\* ActivePageTable::get_entry: none, or the cached reference to the leaf slot.
get_entry(m, self0, cache, vaddr) ==
    LET page == Page_of_addr(vaddr)
        r == Mapper_ref_entry(m, get_table(self0), page)
    IN IF r.ok
       THEN [some |-> TRUE, cache |-> PageEntry(r, page)]
       ELSE [some |-> FALSE, cache |-> cache]

\* map_flags with READABLE left out.
map_flags_not_readable == {"VALID", "WRITABLE"}

\* The flags map installs.
map_flags == {"VALID", "READABLE", "WRITABLE"}

\* ActivePageTable::map; panic is "" when map returns.
map(m, t, self0, cache, addr, tgt, a) ==
    LET flags == map_flags
        page == Page_of_addr(addr)
        frame == Frame_of_addr(tgt)
        r == Mapper_map_to(m, get_table(self0), page, frame, flags, a)
    IN IF r.err # ""
       THEN [panic |-> r.err, mem |-> r.mem, tlb |-> t, took |-> r.took,
             some |-> FALSE, cache |-> cache, pending |-> {}]
       ELSE LET g == get_entry(r.mem, self0, cache, addr)
            IN [panic |-> IF g.some THEN "" ELSE "fail to get entry",
                mem |-> r.mem, tlb |-> sfence_vma(t, page), took |-> r.took,
                some |-> g.some, cache |-> g.cache,
                pending |-> sfence_vma({pte_write(page)}, page)]

\* ActivePageTable::unmap
unmap(m, t, self0, addr) ==
    LET page == Page_of_addr(addr)
        r == Mapper_unmap(m, get_table(self0), page)
    IN IF r.err # ""
       THEN [panic |-> r.err, mem |-> r.mem, tlb |-> t, pending |-> {}]
       ELSE [panic |-> "", mem |-> r.mem, tlb |-> sfence_vma(t, page),
             pending |-> sfence_vma({pte_write(page)}, page)]

\* set_root_page_table_ptr: sfence_vma_all(), then the store to the word.
set_root_page_table_ptr(t, ptr) ==
    LET t1 == sfence_vma_all(t)
        pend1 == sfence_vma_all({})
    IN [tlb |-> t1, ptr |-> ptr, pending |-> pend1 \cup {root_ptr_write}]

\* The entry a cached reference designates.
deref(m, c) == m[c.ptr][c.slot]

(* -------------------------- InactivePageTable0 ------------------------ *)

\* #[cfg(arch = "riscv32")]: `arch` is no cfg key the build sets.
cfg_arch_riscv32 == FALSE

\* InactivePageTable0::new_bare: the memory after the root frame is handed out.
new_bare(m, tgt) ==
    IF cfg_arch_riscv32
    THEN [m EXCEPT ![Word(0, tgt)] = ZeroTable]
    ELSE m

\* map_kernel whose loop starts one slot early.
map_kernel_table_from_255(tbl) ==
    [i \in Slots |->
        IF i >= KERNEL_BEGIN - 1 /\ i < ENTRY_COUNT
        THEN PTE(Frame_of_addr((i - KERNEL_BEGIN) * 4194304),
                 {"VALID", "READABLE", "WRITABLE", "EXECUTABLE"})
        ELSE tbl[i]]

\* InactivePageTable0::map_kernel (riscv32) on the modelled slots of the root.
map_kernel_table(tbl) ==
    [i \in Slots |->
        IF i >= KERNEL_BEGIN /\ i < ENTRY_COUNT
        THEN PTE(Frame_of_addr((i - KERNEL_BEGIN) * 4194304),
                 {"VALID", "READABLE", "WRITABLE", "EXECUTABLE"})
        ELSE tbl[i]]

map_kernel(m, root_frame) ==
    [m EXCEPT ![as_kernel_mut(root_frame)] = map_kernel_table(@)]

\* token without the mode bit.
token_no_mode(root_frame) == Word(0, root_frame)

\* InactivePageTable0::token (riscv32): root_frame.number() | (1 << 31).
token(root_frame) == Word(1, root_frame)

\* InactivePageTable0::active_token: satp::read().bits(), the register's
\* fields put back into one word (MODE bit 31, ASID bits 22..30, PPN bits 0..21).
active_token == Word(satp.mode, satp.asid * 4194304 + satp.ppn)

\* InactivePageTable0::set_token: csrw satp, the word split into the
\* register's fields.
set_token(tok) ==
    [mode |-> tok.hi, asid |-> (tok.lo \div 4194304) % 512, ppn |-> tok.lo % 4194304]

\* drop that releases the root frame twice.
drop_twice(root_frame) == <<start_address(root_frame), start_address(root_frame)>>

\* Drop for InactivePageTable0: the addresses handed to dealloc_frame, in order.
drop(root_frame) == <<start_address(root_frame)>>

\* The allocator after the releases of one operation; double tells whether a
\* frame was released that the allocator already held.
RECURSIVE release(_, _)
release(fr, addrs) ==
    IF addrs = <<>>
    THEN [free |-> fr, double |-> FALSE]
    ELSE LET rest == release(dealloc_frame(fr, Head(addrs)), Tail(addrs))
         IN [free |-> rest.free,
             double |-> rest.double \/ Frame_of_addr(Head(addrs)) \in fr]

RECURSIVE frames_of(_)
frames_of(addrs) ==
    IF addrs = <<>> THEN <<>>
    ELSE <<Frame_of_addr(Head(addrs))>> \o frames_of(Tail(addrs))

(* ------------------------------ history ------------------------------- *)

\* What get_entry on the active table returns for v: none, or the entry.
ActiveLookup(m, v) ==
    LET g == get_entry(m, ActivePageTable_new, Uninit, v)
    IN [some |-> g.some, e |-> IF g.some THEN deref(m, g.cache) ELSE Unused]

NoSnap == [v \in VAddrs |-> [some |-> FALSE, e |-> Unused]]

NoLast == [op |-> "init", root |-> NoFrame, self0 |-> Word(0, 0), v |-> 0, p |-> 0,
           some |-> FALSE, cache |-> Uninit, took |-> FALSE, before |-> ZeroTable,
           freeBefore |-> {}, released |-> <<>>, double |-> FALSE,
           snap |-> NoSnap, satpBefore |-> Word(0, 0), pending |-> {}]

NoEdit == [on |-> FALSE, self |-> NoFrame, self0 |-> Word(0, 0), cache |-> Uninit,
           snap |-> NoSnap, satpBefore |-> Word(0, 0), pending |-> {}]

(* -------------------------------- Init -------------------------------- *)

TablePtrs == {as_kernel_mut(f) : f \in Frames} \cup {token(f) : f \in PoolFrames}

\* What the memory at the address equal to a token holds is not written by
\* any code of the layer: its low root slot holds an arbitrary word, either
\* zero or an entry naming some frame.
JunkEntries == {Unused} \cup {PTE(g, {"VALID"}) : g \in BootFrames}

Init64 ==
    /\ t64 = [f \in Frames |-> [rec |-> PTE(f, {"VALID"}), mapped |-> {}]]
    /\ satp64 = 0
    /\ edit64 = [pc |-> "idle", self |-> NoFrame, target |-> NoFrame, backup |-> Unused]

\* No call has been made on the entry yet.
NoCall(e) == [op |-> "init", arg |-> 0, flag |-> FALSE, before |-> e,
              t0 |-> target(e),
              clean |-> ~writable_shared(e) /\ ~readonly_shared(e) /\ ~swapped(e),
              swapSet |-> FALSE]

InitE ==
    /\ entry = Unused
    /\ ehist = NoCall(Unused)

Init32 ==
    /\ \E j \in JunkEntries :
          mem = [ptr \in TablePtrs |->
                    IF ptr.hi = 1 THEN [ZeroTable EXCEPT ![0] = j] ELSE ZeroTable]
    /\ free = PoolFrames
    /\ satp = set_token(token(0))
    /\ root_page_table_ptr = as_kernel_mut(0)
    /\ page_table_with_mode = FALSE
    /\ tables = {}
    /\ editv = NoEdit
    /\ tlb = {}
    /\ halted = ""
    /\ steps = 0
    /\ inter = [f \in Frames |-> {}]
    /\ emap = [f \in Frames |-> {}]
    /\ last = NoLast

Init == Init32 /\ Init64 /\ InitE

Running == halted = "" /\ steps < MaxSteps
Idle == Running /\ ~editv.on

(* ------------------------------ actions ------------------------------- *)

\* InactivePageTable0::new_bare()
NewBare ==
    /\ Idle
    /\ \E a \in alloc_frame(free) :
          IF a = NoFrame
          THEN /\ halted' = "failed to allocate frame"
               /\ last' = [NoLast EXCEPT !.op = "new_bare"]
               /\ UNCHANGED <<mem, free, tables, inter, emap>>
          ELSE LET tgt == start_address(a)
                   frame == Frame_of_addr(tgt)
               IN /\ free' = free \ {a}
                  /\ mem' = new_bare(mem, tgt)
                  /\ tables' = tables \cup {frame}
                  /\ inter' = [inter EXCEPT ![frame] = {}]
                  /\ emap' = [emap EXCEPT ![frame] = {}]
                  /\ last' = [NoLast EXCEPT !.op = "new_bare", !.root = frame]
                  /\ UNCHANGED halted
    /\ UNCHANGED <<satp, root_page_table_ptr, page_table_with_mode, editv, tlb>>
    /\ steps' = steps + 1
    /\ UNCHANGED <<vars64, varsE>>

\* drop(x) of the InactivePageTable0 whose root frame is r
Drop(r) ==
    /\ Idle
    /\ r \in tables
    /\ LET rel == release(free, drop(r))
       IN /\ free' = rel.free
          /\ last' = [NoLast EXCEPT !.op = "drop", !.root = r, !.freeBefore = free,
                                    !.released = frames_of(drop(r)),
                                    !.double = rel.double]
    /\ tables' = tables \ {r}
    /\ UNCHANGED <<mem, satp, root_page_table_ptr, page_table_with_mode, editv, tlb,
                   halted, inter, emap>>
    /\ steps' = steps + 1
    /\ UNCHANGED <<vars64, varsE>>

\* x.map_kernel()
MapKernel(r) ==
    /\ Idle
    /\ r \in tables
    /\ mem' = map_kernel(mem, r)
    /\ last' = [NoLast EXCEPT !.op = "map_kernel", !.root = r,
                              !.before = mem[as_kernel_mut(r)]]
    /\ UNCHANGED <<free, satp, root_page_table_ptr, page_table_with_mode, tables,
                   editv, tlb, halted, inter, emap>>
    /\ steps' = steps + 1
    /\ UNCHANGED <<vars64, varsE>>

\* InactivePageTable0::set_token(x.token()), x a live table or a boot table
SetToken(r) ==
    /\ Idle
    /\ r \in tables \cup BootFrames
    /\ satp' = set_token(token(r))
    /\ last' = [NoLast EXCEPT !.op = "set_token", !.root = r, !.satpBefore = active_token]
    /\ UNCHANGED <<mem, free, root_page_table_ptr, page_table_with_mode, tables,
                   editv, tlb, halted, inter, emap>>
    /\ steps' = steps + 1
    /\ UNCHANGED <<vars64, varsE>>

\* InactivePageTable0::flush_tlb()
FlushTlb ==
    /\ Idle
    /\ tlb' = sfence_vma_all(tlb)
    /\ last' = [NoLast EXCEPT !.op = "flush_tlb"]
    /\ UNCHANGED <<mem, free, satp, root_page_table_ptr, page_table_with_mode, tables,
                   editv, halted, inter, emap>>
    /\ steps' = steps + 1
    /\ UNCHANGED <<vars64, varsE>>

\* set_root_page_table_ptr(ptr), ptr the address of a boot root table
SetRootPageTablePtr(ptr) ==
    /\ Idle
    /\ LET r == set_root_page_table_ptr(tlb, ptr)
       IN /\ tlb' = r.tlb
          /\ root_page_table_ptr' = r.ptr
          /\ last' = [NoLast EXCEPT !.op = "set_root_page_table_ptr", !.self0 = ptr,
                                    !.pending = r.pending]
    /\ UNCHANGED <<mem, free, satp, page_table_with_mode, tables, editv, halted,
                   inter, emap>>
    /\ steps' = steps + 1
    /\ UNCHANGED <<vars64, varsE>>

\* map(v, p) on a view whose field 0 is self0 and whose cached entry is cache
DoMap(self0, cache, v, p, a) ==
    LET r == map(mem, tlb, self0, cache, v, p, a)
    IN /\ mem' = r.mem
       /\ tlb' = r.tlb
       /\ free' = IF r.took THEN free \ {a} ELSE free
       /\ halted' = r.panic
       /\ last' = [NoLast EXCEPT !.op = "map", !.self0 = self0, !.v = v, !.p = p,
                                 !.some = r.some, !.cache = r.cache, !.took = r.took,
                                 !.root = editv.self, !.pending = r.pending]
       /\ editv' = IF editv.on
                   THEN [editv EXCEPT !.cache = r.cache,
                                      !.pending = @ \cup r.pending]
                   ELSE editv
       /\ inter' = IF editv.on /\ r.took
                   THEN [inter EXCEPT ![editv.self] = @ \cup {a}] ELSE inter
       /\ emap' = IF editv.on /\ r.panic = ""
                  THEN [emap EXCEPT ![editv.self] =
                            @ \cup {<<Page_of_addr(v), Frame_of_addr(p)>>}]
                  ELSE emap

DoUnmap(self0, v) ==
    LET r == unmap(mem, tlb, self0, v)
    IN /\ mem' = r.mem
       /\ tlb' = r.tlb
       /\ halted' = r.panic
       /\ last' = [NoLast EXCEPT !.op = "unmap", !.self0 = self0, !.v = v,
                                 !.root = editv.self, !.pending = r.pending]
       /\ emap' = IF editv.on /\ r.panic = ""
                  THEN [emap EXCEPT ![editv.self] =
                            {x \in @ : x[1] # Page_of_addr(v)}]
                  ELSE emap
       /\ editv' = IF editv.on
                   THEN [editv EXCEPT !.pending = @ \cup r.pending]
                   ELSE editv
       /\ UNCHANGED <<free, inter>>

DoGetEntry(self0, cache, v) ==
    LET g == get_entry(mem, self0, cache, v)
    IN /\ last' = [NoLast EXCEPT !.op = "get_entry", !.self0 = self0, !.v = v,
                                 !.some = g.some, !.cache = g.cache,
                                 !.root = editv.self]
       /\ editv' = IF editv.on THEN [editv EXCEPT !.cache = g.cache] ELSE editv
       /\ UNCHANGED <<mem, tlb, free, halted, inter, emap>>

\* active_table().map(v, p): a view made by ActivePageTable::new()
ActiveMap(v, p) ==
    /\ Idle
    /\ \E a \in alloc_frame(free) : DoMap(ActivePageTable_new, Uninit, v, p, a)
    /\ UNCHANGED <<satp, root_page_table_ptr, page_table_with_mode, tables>>
    /\ steps' = steps + 1
    /\ UNCHANGED <<vars64, varsE>>

ActiveUnmap(v) ==
    /\ Idle
    /\ DoUnmap(ActivePageTable_new, v)
    /\ UNCHANGED <<satp, root_page_table_ptr, page_table_with_mode, tables>>
    /\ steps' = steps + 1
    /\ UNCHANGED <<vars64, varsE>>

ActiveGetEntry(v) ==
    /\ Idle
    /\ DoGetEntry(ActivePageTable_new, Uninit, v)
    /\ UNCHANGED <<satp, root_page_table_ptr, page_table_with_mode, tables>>
    /\ steps' = steps + 1
    /\ UNCHANGED <<vars64, varsE>>

\* x.edit(f): the view is built and f starts
EditBegin(r) ==
    /\ Idle
    /\ r \in tables
    /\ editv' = [on |-> TRUE, self |-> r, self0 |-> token(r), cache |-> Uninit,
                 snap |-> [v \in VAddrs |-> ActiveLookup(mem, v)],
                 satpBefore |-> active_token]
    /\ last' = [NoLast EXCEPT !.op = "edit_begin", !.root = r]
    /\ UNCHANGED <<mem, free, satp, root_page_table_ptr, page_table_with_mode, tables,
                   tlb, halted, inter, emap>>
    /\ steps' = steps + 1
    /\ UNCHANGED <<vars64, varsE>>

\* the calls f makes on the view it was given
EditMap(v, p) ==
    /\ Running /\ editv.on
    /\ \E a \in alloc_frame(free) : DoMap(editv.self0, editv.cache, v, p, a)
    /\ UNCHANGED <<satp, root_page_table_ptr, page_table_with_mode, tables>>
    /\ steps' = steps + 1
    /\ UNCHANGED <<vars64, varsE>>

EditUnmap(v) ==
    /\ Running /\ editv.on
    /\ DoUnmap(editv.self0, v)
    /\ UNCHANGED <<satp, root_page_table_ptr, page_table_with_mode, tables>>
    /\ steps' = steps + 1
    /\ UNCHANGED <<vars64, varsE>>

EditGetEntry(v) ==
    /\ Running /\ editv.on
    /\ DoGetEntry(editv.self0, editv.cache, v)
    /\ UNCHANGED <<satp, root_page_table_ptr, page_table_with_mode, tables>>
    /\ steps' = steps + 1
    /\ UNCHANGED <<vars64, varsE>>

\* f returns: flush_tlb(), and edit returns
EditEnd ==
    /\ Running /\ editv.on
    /\ tlb' = sfence_vma_all(tlb)
    /\ editv' = NoEdit
    /\ last' = [NoLast EXCEPT !.op = "edit", !.root = editv.self,
                              !.snap = editv.snap, !.satpBefore = editv.satpBefore,
                              !.pending = sfence_vma_all(editv.pending)]
    /\ UNCHANGED <<mem, free, satp, root_page_table_ptr, page_table_with_mode, tables,
                   halted, inter, emap>>
    /\ steps' = steps + 1
    /\ UNCHANGED <<vars64, varsE>>

Next ==
    \/ NewBare
    \/ \E r \in PoolFrames : Drop(r)
    \/ \E r \in PoolFrames : MapKernel(r)
    \/ \E r \in Frames : SetToken(r)
    \/ FlushTlb
    \/ \E b \in BootFrames : SetRootPageTablePtr(as_kernel_mut(b))
    \/ \E v \in VAddrs, p \in PAddrs : ActiveMap(v, p)
    \/ \E v \in VAddrs : ActiveUnmap(v)
    \/ \E v \in VAddrs : ActiveGetEntry(v)
    \/ \E r \in PoolFrames : EditBegin(r)
    \/ \E v \in VAddrs, p \in PAddrs : EditMap(v, p)
    \/ \E v \in VAddrs : EditUnmap(v)
    \/ \E v \in VAddrs : EditGetEntry(v)
    \/ EditEnd

Spec == Init /\ [][Next]_vars

(* --------------------- riscv64: edit (recursive) ---------------------- *)

\* The table the recursive mechanism walks: the one the active root's
\* recursive slot names.
walked64 == t64[satp64].rec.ppn

\* x.edit(f) up to the call of f: backup, overwrite, sfence_vma_all.
Edit64Begin(x) ==
    /\ edit64.pc \in {"idle", "returned"}
    /\ x \in Frames
    /\ LET tgt == satp64
       IN /\ edit64' = [pc |-> "in_f", self |-> x, target |-> tgt,
                        backup |-> t64[tgt].rec]
          /\ t64' = [t64 EXCEPT ![tgt].rec = PTE(x, {"VALID"})]
    /\ UNCHANGED satp64
    /\ UNCHANGED <<vars32, varsE>>

\* f calls map(v, _) on the view: unwrap() panics when the page is mapped.
Edit64Map(v) ==
    /\ edit64.pc = "in_f"
    /\ IF Page_of_addr(v) \in t64[walked64].mapped
       THEN /\ edit64' = [edit64 EXCEPT !.pc = "panicked"]
            /\ UNCHANGED t64
       ELSE /\ t64' = [t64 EXCEPT ![walked64].mapped = @ \cup {Page_of_addr(v)}]
            /\ UNCHANGED edit64
    /\ UNCHANGED satp64
    /\ UNCHANGED <<vars32, varsE>>

\* f calls unmap(v) on the view: unwrap() panics when the page is not mapped.
Edit64Unmap(v) ==
    /\ edit64.pc = "in_f"
    /\ IF Page_of_addr(v) \notin t64[walked64].mapped
       THEN /\ edit64' = [edit64 EXCEPT !.pc = "panicked"]
            /\ UNCHANGED t64
       ELSE /\ t64' = [t64 EXCEPT ![walked64].mapped = @ \ {Page_of_addr(v)}]
            /\ UNCHANGED edit64
    /\ UNCHANGED satp64
    /\ UNCHANGED <<vars32, varsE>>

\* f returned: the recursive slot is restored, sfence_vma_all, edit returns.
Edit64End ==
    /\ edit64.pc = "in_f"
    /\ t64' = [t64 EXCEPT ![edit64.target].rec = edit64.backup]
    /\ edit64' = [edit64 EXCEPT !.pc = "returned"]
    /\ UNCHANGED satp64
    /\ UNCHANGED <<vars32, varsE>>

\* set_token(x.token()) between edits
SetToken64(x) ==
    /\ edit64.pc \in {"idle", "returned"}
    /\ x \in Frames
    /\ satp64' = x
    /\ UNCHANGED <<t64, edit64>>
    /\ UNCHANGED <<vars32, varsE>>

Next64 ==
    \/ \E x \in Frames : Edit64Begin(x)
    \/ \E v \in VAddrs : Edit64Map(v)
    \/ \E v \in VAddrs : Edit64Unmap(v)
    \/ Edit64End
    \/ \E x \in Frames : SetToken64(x)

Spec64 == Init /\ [][Next64]_vars

(* ------------------------- the Entry interface ------------------------ *)

\* The entries a PageEntry can refer to: any flag word over a frame.
EntryFrames == {0, 2}
EntryStates == {PTE(f, fl) : f \in EntryFrames, fl \in SUBSET EF}

MarkerOps == {"set_shared", "clear_shared", "set_swapped"}

\* One call on the PageEntry: op(arg) or op(flag) turns the entry into e2.
Call(op, arg, flag, e2) ==
    /\ entry' = e2
    /\ ehist' = [op |-> op, arg |-> arg, flag |-> flag, before |-> entry,
                 t0 |-> IF op = "set_target" THEN target(e2) ELSE ehist.t0,
                 clean |-> ehist.clean /\ op \in MarkerOps,
                 swapSet |-> IF op = "set_swapped" THEN flag
                             ELSE IF op = "clear_shared" THEN FALSE
                             ELSE ehist.swapSet]
    /\ UNCHANGED <<vars32, vars64>>

SetPresent(b) == Call("set_present", 0, b, set_present(entry, b))
SetWritable(b) == Call("set_writable", 0, b, set_writable(entry, b))
SetUser(b) == Call("set_user", 0, b, set_user(entry, b))
SetExecute(b) == Call("set_execute", 0, b, set_execute(entry, b))
SetShared(b) == Call("set_shared", 0, b, set_shared(entry, b))
ClearShared == Call("clear_shared", 0, FALSE, clear_shared(entry))
SetSwapped(b) == Call("set_swapped", 0, b, set_swapped(entry, b))
ClearAccessed == Call("clear_accessed", 0, FALSE, clear_accessed(entry))
ClearDirty == Call("clear_dirty", 0, FALSE, clear_dirty(entry))
SetTarget(a) == Call("set_target", a, FALSE, set_target(entry, a))

NextEntry ==
    \/ \E b \in BOOLEAN : SetPresent(b)
    \/ \E b \in BOOLEAN : SetWritable(b)
    \/ \E b \in BOOLEAN : SetUser(b)
    \/ \E b \in BOOLEAN : SetExecute(b)
    \/ \E b \in BOOLEAN : SetShared(b)
    \/ ClearShared
    \/ \E b \in BOOLEAN : SetSwapped(b)
    \/ ClearAccessed
    \/ ClearDirty
    \/ \E a \in PAddrs : SetTarget(a)

InitEntry ==
    /\ Init32 /\ Init64
    /\ \E e \in EntryStates : entry = e /\ ehist = NoCall(e)

SpecEntry == InitEntry /\ [][NextEntry]_vars

(* ------------------------------- claims ------------------------------- *)

\* C1: after map(v, p) returns, get_entry(v) on the same view returns an entry
\* that is present and whose target is the base address of the frame
\* containing p; it is the entry map returned.
C1_MapThenGetEntry ==
    (last.op = "map" /\ halted = "") =>
        LET g == get_entry(mem, last.self0, Uninit, last.v)
        IN /\ g.some
           /\ last.some /\ last.cache = g.cache
           /\ present(deref(mem, g.cache))
           /\ target(deref(mem, g.cache)) = last.p - (last.p % PAGE_SIZE)

\* C1 witness: map returned after taking a frame for the missing table level,
\* for a physical address that is not frame-aligned.
C1_Witness ==
    /\ last.op = "map" /\ halted = ""
    /\ last.took
    /\ last.p % PAGE_SIZE # 0

\* C2 as stated: after unmap(v) of a mapped page returns, get_entry(v) is none.
C2_UnmapThenNone ==
    (last.op = "unmap" /\ halted = "") =>
        ~get_entry(mem, last.self0, Uninit, last.v).some

\* C2 amended: after unmap(v) of a mapped page returns, get_entry(v) returns
\* the entry of the leaf slot, which is unused and so not present.
C2_UnmapThenNotPresent ==
    (last.op = "unmap" /\ halted = "") =>
        LET g == get_entry(mem, last.self0, Uninit, last.v)
        IN /\ g.some
           /\ is_unused(deref(mem, g.cache))
           /\ ~present(deref(mem, g.cache))

\* C2 witness: unmap returned on the view of an edit.
C2_Witness ==
    /\ last.op = "unmap" /\ halted = ""
    /\ editv.on

C4_EndToEnd ==
    \A x \in tables :
        (last.op = "set_token" /\ last.root = x) =>
            LET r == Mapper_ref_entry(mem, as_kernel_mut(satp.ppn), 1)
                found == r.ok /\ present(mem[r.ptr][r.slot])
            IN /\ (<<1, 2>> \in emap[x]) =>
                      (found /\ target(mem[r.ptr][r.slot]) = 8192)
               /\ (\A fr \in Frames : <<1, fr>> \notin emap[x]) => ~found

\* C5: after set_token(x.token()), active_token() equals x.token(), its frame
\* number field is x's root frame and its bit 31 is set.
C5_TokenRoundTrip ==
    (last.op = "set_token") =>
        /\ active_token = token(last.root)
        /\ active_token.lo % 4194304 = last.root
        /\ active_token.hi = 1

\* C5 witness: the token of a table made by new_bare was installed over
\* another one.
C5_Witness ==
    /\ last.op = "set_token"
    /\ last.root \in tables
    /\ last.satpBefore # active_token

\* C6: map_kernel leaves every user-half slot of the root as it was, and
\* running it again on the result changes nothing.
C6_MapKernelIdempotentConfined ==
    (last.op = "map_kernel") =>
        /\ \A i \in Slots :
              i < KERNEL_BEGIN =>
                  mem[as_kernel_mut(last.root)][i] = last.before[i]
        /\ map_kernel(mem, last.root) = mem
        /\ \A i \in Slots :
              i >= KERNEL_BEGIN => ~is_unused(mem[as_kernel_mut(last.root)][i])

\* C6 witness: map_kernel ran on a root that already held the kernel half
\* and a used user-half slot.
C6_Witness ==
    /\ last.op = "map_kernel"
    /\ ~is_unused(last.before[KERNEL_BEGIN + 1])
    /\ \E i \in Slots : i < KERNEL_BEGIN /\ ~is_unused(last.before[i])

\* C7: right after new_bare returns every slot of the new root table is unused.
C7_NewBareZeroes ==
    (last.op = "new_bare" /\ halted = "") =>
        \A i \in Slots : is_unused(mem[as_kernel_mut(last.root)][i])

\* C8: drop releases exactly one frame, the root; the frames map took for
\* table nodes stay allocated, and the root was not already released.
C8_DropReleasesRootOnly ==
    (last.op = "drop") =>
        /\ last.released = <<last.root>>
        /\ ~last.double
        /\ free = last.freeBefore \cup {last.root}
        /\ inter[last.root] \cap free = {}

\* C8 witness: a table was dropped after map, through edit, took a frame for
\* one of its table nodes.
C8_Witness ==
    /\ last.op = "drop"
    /\ inter[last.root] # {}

\* C9: the frame named by the active token is never one the allocator holds.
C9_ActiveRootNotReleased == satp.ppn \notin free

\* C10: whenever the recursive edit has ended, by f returning or by f
\* failing, the active root's recursive slot holds the entry it held before.
C10_RecursiveSlotRestored ==
    (edit64.pc \in {"returned", "panicked"}) =>
        t64[edit64.target].rec = edit64.backup

\* C11 as stated: when map, unmap, edit or set_root_page_table_ptr returns,
\* every write the operation made to a table entry or to the root pointer has
\* been followed by its translation-cache invalidation.
C11_InvalidationAfterWrite ==
    (last.op \in {"map", "unmap", "edit", "set_root_page_table_ptr"} /\ halted = "") =>
        last.pending = {}

\* C12: when map needs a frame for a missing intermediate table and the
\* allocator has none, map is fatal, returns no entry and leaves the tables
\* and the allocator as they were; new_bare is fatal when the allocator has
\* no frame for the root.
C12_OutOfMemoryFatal ==
    [][/\ (/\ last'.op = "map"
           /\ free = {}
           /\ is_unused(mem[get_table(last'.self0)][p2_index(Page_of_addr(last'.v))]))
          => (/\ halted' = "FrameAllocationFailed"
              /\ ~last'.some
              /\ mem' = mem
              /\ free' = free)
       /\ (last'.op = "new_bare" /\ free = {})
          => (/\ halted' = "failed to allocate frame"
              /\ tables' = tables
              /\ mem' = mem)]_vars

\* C12 witness: map ended fatally because no frame was left for the missing
\* intermediate table.
C12_Witness ==
    /\ last.op = "map"
    /\ halted = "FrameAllocationFailed"
    /\ free = {}

\* The intermediate table for the page of v is absent from the view's table.
NoIntermediate(m, self0, v) ==
    is_unused(m[get_table(self0)][p2_index(Page_of_addr(v))])

\* The intermediate table for the page of v exists and its leaf slot is unused.
LeafUnused(m, self0, v) ==
    /\ ~NoIntermediate(m, self0, v)
    /\ LET r == Mapper_ref_entry(m, get_table(self0), Page_of_addr(v))
       IN is_unused(m[r.ptr][r.slot])

\* C13: unmap(v) of a page with no mapping is fatal, both when the
\* intermediate table is absent and when it exists with an unused leaf slot,
\* and it leaves the tables as they were.
C13_UnmapMissingFatal ==
    [][(/\ last'.op = "unmap"
        /\ \/ NoIntermediate(mem, last'.self0, last'.v)
           \/ LeafUnused(mem, last'.self0, last'.v))
       => (/\ halted' = "PageNotMapped"
           /\ mem' = mem
           /\ free' = free)]_vars

\* C13 witness: unmap was fatal on a page whose intermediate table exists
\* and whose leaf slot is unused.
C13_Witness ==
    /\ last.op = "unmap"
    /\ halted = "PageNotMapped"
    /\ LeafUnused(mem, last.self0, last.v)

FlagMutators == {"set_present", "set_writable", "set_user", "set_execute",
                 "set_shared", "clear_shared", "set_swapped", "clear_accessed",
                 "clear_dirty"}

\* C14: after any sequence of flag mutators target() is what it was before
\* the sequence: the target is the one the entry started with or the one the
\* last set_target installed.
C14_FlagIndependence ==
    /\ target(entry) = ehist.t0
    /\ (ehist.op \in FlagMutators) => target(entry) = target(ehist.before)

\* C14 witness: set_writable(false) was called on a writable entry whose
\* target is not zero.
C14_Witness ==
    /\ ehist.op = "set_writable" /\ ~ehist.flag
    /\ writable(ehist.before)
    /\ target(ehist.before) # 0

\* Every flag query of the Entry interface, in a fixed order.
FlagQueries(e) ==
    <<present(e), writable(e), user(e), execute(e), accessed(e), dirty(e),
      writable_shared(e), readonly_shared(e), swapped(e)>>

\* C15: after set_target(a), target() is the base address of the frame
\* containing a and every flag query returns what it returned before.
C15_SetTargetKeepsFlags ==
    (ehist.op = "set_target") =>
        /\ target(entry) = ehist.arg - (ehist.arg % PAGE_SIZE)
        /\ FlagQueries(entry) = FlagQueries(ehist.before)

\* C15 witness: set_target, with an address that is not frame-aligned,
\* replaced the frame of an entry that is present, user and read-only-shared.
C15_Witness ==
    /\ ehist.op = "set_target"
    /\ ehist.arg % PAGE_SIZE # 0
    /\ target(ehist.before) # target(entry)
    /\ present(entry) /\ user(entry) /\ readonly_shared(entry)
    /\ ~writable(entry)

\* C16: after set_shared(true) the entry is writable-shared and not
\* read-only-shared; after set_shared(false) it is read-only-shared and not
\* writable-shared; after clear_shared() it is neither.
C16_SharingMarkers ==
    /\ (ehist.op = "set_shared" /\ ehist.flag) =>
           (writable_shared(entry) /\ ~readonly_shared(entry))
    /\ (ehist.op = "set_shared" /\ ~ehist.flag) =>
           (readonly_shared(entry) /\ ~writable_shared(entry))
    /\ (ehist.op = "clear_shared") =>
           (~writable_shared(entry) /\ ~readonly_shared(entry))

\* C16 witness: set_shared(false) was called on an entry that carried the
\* writable-shared marker and not the read-only one.
C16_Witness ==
    /\ ehist.op = "set_shared" /\ ~ehist.flag
    /\ writable_shared(ehist.before) /\ ~readonly_shared(ehist.before)

\* C20 as stated: on an entry that started with no marker and saw only
\* set_shared, clear_shared and set_swapped calls, writable_shared() and
\* readonly_shared() are never both true, and a read-only-shared entry
\* reports swapped() only when set_swapped(true) was called and no clearing
\* call followed it.
C20_MarkersExclusive ==
    ehist.clean =>
        /\ ~(writable_shared(entry) /\ readonly_shared(entry))
        /\ (readonly_shared(entry) /\ swapped(entry)) => ehist.swapSet

\* C17 as stated: every map, unmap and get_entry made on the view of
\* x.edit(f) works on the table in x's root frame, reached through the linear
\* offset: not on the table at the address equal to x's token, and not on
\* the active root table.
C17_EditViewIsRootFrame ==
    (editv.on /\ last.op \in {"map", "unmap", "get_entry"}) =>
        /\ last.root = editv.self
        /\ get_table(last.self0) = as_kernel_mut(editv.self)

\* C18: get_entry(v) takes no frame, changes no table entry, issues no
\* invalidation and changes nothing but the view's cached entry; it returns
\* none when the intermediate table of v's page is absent, and when it
\* returns an entry the cached entry refers to the leaf slot of v's page.
C18_GetEntryPure ==
    [][(last'.op = "get_entry") =>
          LET page == Page_of_addr(last'.v)
              root == get_table(last'.self0)
          IN /\ mem' = mem /\ free' = free /\ tlb' = tlb
             /\ satp' = satp /\ root_page_table_ptr' = root_page_table_ptr
             /\ tables' = tables /\ halted' = halted
             /\ is_unused(mem[root][p2_index(page)]) => ~last'.some
             /\ last'.some =>
                   /\ ~is_unused(mem[root][p2_index(page)])
                   /\ last'.cache.init
                   /\ last'.cache.page = page
                   /\ last'.cache.ptr = p1_of(mem[root][p2_index(page)])
                   /\ last'.cache.slot = p1_index(page)
             /\ editv.on => editv'.cache = last'.cache]_vars

\* C18 witness: get_entry on the view of an edit returned the entry of a
\* page that is mapped.
C18_Witness ==
    /\ last.op = "get_entry"
    /\ last.some
    /\ editv.on
    /\ present(deref(mem, last.cache))

\* The leaf slot of v's page exists in the view's table and is in use.
AlreadyMapped(m, self0, v) ==
    /\ ~NoIntermediate(m, self0, v)
    /\ LET r == Mapper_ref_entry(m, get_table(self0), Page_of_addr(v))
       IN ~is_unused(m[r.ptr][r.slot])

\* C19: map(v, p) on a page that is already mapped is fatal, returns no
\* entry, leaves every table entry as it was and takes no frame.
C19_MapMappedFatal ==
    [][(last'.op = "map" /\ AlreadyMapped(mem, last'.self0, last'.v)) =>
          /\ halted' = "PageAlreadyMapped"
          /\ ~last'.some
          /\ mem' = mem
          /\ free' = free]_vars

\* C19 witness: map was fatal on a page that is mapped to another frame than
\* the one the call named.
C19_Witness ==
    /\ last.op = "map"
    /\ halted = "PageAlreadyMapped"
    /\ LET r == Mapper_ref_entry(mem, get_table(last.self0), Page_of_addr(last.v))
       IN /\ present(mem[r.ptr][r.slot])
          /\ target(mem[r.ptr][r.slot]) # last.p - (last.p % PAGE_SIZE)

====
